---- MODULE Spec2Model ----
(***************************************************************************)
(* PointGenerator (matchzoo/generators/point_generator.py).                *)
(*                                                                         *)
(* Python arrays and lists are modelled as TLA+ sequences.  A Python index *)
(* i (0-based, negative counting from the end) is kept as an integer and   *)
(* resolved by Item, so the source's index arithmetic stays visible.       *)
(***************************************************************************)
EXTENDS Integers, Sequences, FiniteSets, TLC

\* ------------------------------------------------------------------ bounds

\* rows of the DataPack handed to the constructor (direct get_batch calls)
MaxRows == 2
\* len(index_array) of a single get_batch call
MaxIndexLen == 2
\* len(index_array) of each call in a sequence of get_batch calls
MaxSeqIndexLen == 1
\* rows of the DataPack when the generator is iterated
MaxEpochRows == 3
\* batch_size argument when the generator is iterated
MaxBatchSize == 3
\* traversals of the dataset that are followed
MaxEpochs == 2
\* direct get_batch calls that are followed on one generator
MaxCalls == 3

\* ------------------------------------------------------------- input data

Row(tl, tr, l, il, ir) ==
    [text_left |-> tl, text_right |-> tr, label |-> l, id_left |-> il, id_right |-> ir]

\* Rows a DataPack may hold.  The first is the row of the class docstring.
\* Texts have one fixed length (they are padded upstream).  For a task with
\* 2 classes the labels cover: valid (0, 1), too large (2), negative within
\* -C..-1 (-1) and negative below -C (-3).
RowSet ==
    { Row(<<1, 2>>, <<3, 4>>, 0, "id0", "id1"),
      Row(<<5, 6>>, <<7, 8>>, 1, "id2", "id3"),
      Row(<<1, 2>>, <<7, 8>>, 2, "id0", "id3"),
      Row(<<5, 6>>, <<3, 4>>, -1, "id2", "id1"),
      Row(<<9, 9>>, <<3, 4>>, -3, "id4", "id1") }

\* Rows with labels that are valid class indices for every task modelled.
EpochRowSet == { r \in RowSet : r.label \in {0, 1} }

\* Rows of the generators followed through sequences of calls: a valid
\* label, one that is too large and a negative one.
SeqRowSet == { r \in RowSet : r.label \in {0, 2, -1} }

SeqsUpTo(S, lo, hi) == UNION { [1..n -> S] : n \in lo..hi }

\* --------------------------------------------------------------- the tasks

RankingInstance == [class |-> "Ranking", instance |-> TRUE, num_classes |-> 0]
ClassificationInstance(C) ==
    [class |-> "Classification", instance |-> TRUE, num_classes |-> C]
\* the class object tasks.Classification itself, not an instance of it
ClassificationClass ==
    [class |-> "Classification", instance |-> FALSE, num_classes |-> 0]
\* an instance of some other engine.BaseTask subclass
OtherTaskInstance == [class |-> "BaseTask", instance |-> TRUE, num_classes |-> 0]

Tasks ==
    { RankingInstance, ClassificationInstance(2), ClassificationInstance(3),
      ClassificationClass, OtherTaskInstance }

\* isinstance(obj, tasks.<cls>)
isinstance(obj, cls) == obj.instance /\ obj.class = cls

\* a default that is an instance, as the parameter's annotation asks
DefaultTask_instance == ClassificationInstance(2)
\* the default of the constructor's task parameter
DefaultTask == ClassificationClass

\* the default of the constructor's batch_size parameter
DefaultBatchSize == 32
\* the default of the constructor's shuffle parameter
DefaultShuffle == TRUE

\* ------------------------------------------------------- Python indexing

\* a[i] raises IndexError unless -len(a) <= i < len(a)
InBounds(n, i) == -n <= i /\ i < n
\* a negative index counts from the end
Wrap(n, i) == IF i < 0 THEN i + n ELSE i
\* a[i] for an index that is in bounds
Item(a, i) == a[Wrap(Len(a), i) + 1]

AllInBounds(n, index_array) ==
    \A k \in 1..Len(index_array) : InBounds(n, index_array[k])

\* ---------------------------------------------------------- transform_data

Column(inputs, name) == [i \in 1..Len(inputs) |-> inputs[i][name]]

transform_data(inputs) ==
    [x_left |-> Column(inputs, "text_left"),
     x_right |-> Column(inputs, "text_right"),
     y |-> Column(inputs, "label"),
     id_left |-> Column(inputs, "id_left"),
     id_right |-> Column(inputs, "id_right")]

\* ------------------------------------------ _get_batch_of_transformed_samples

\* the one-hot row with the 1 written one column too far
OneHot_shifted(num_classes, label) ==
    [c \in 1..num_classes |-> IF c = Wrap(num_classes, label) + 2 THEN 1 ELSE 0]
\* one row of np.zeros((batch_size, num_classes)) after batch_y[i, label] = 1
OneHot(num_classes, label) ==
    [c \in 1..num_classes |-> IF c = Wrap(num_classes, label) + 1 THEN 1 ELSE 0]

\* The label branch.  Ranking binds batch_y to the whole stored label array;
\* Classification gathers self.y[index_array] (bounds-checked, negative
\* indices wrapping) and writes one 1 per row of a zero array (the column
\* index bounds-checked, negative labels wrapping); any other task raises.
LabelEncoding(task, y, index_array) ==
    IF isinstance(task, "Ranking")
    THEN [error |-> "none", batch_y |-> y]
    ELSE IF isinstance(task, "Classification")
    THEN IF ~AllInBounds(Len(y), index_array)
         THEN [error |-> "IndexError", batch_y |-> <<>>]
         ELSE IF \E k \in 1..Len(index_array) :
                    ~InBounds(task.num_classes, Item(y, index_array[k]))
         THEN [error |-> "IndexError", batch_y |-> <<>>]
         ELSE [error |-> "none",
               batch_y |-> [k \in 1..Len(index_array) |->
                               OneHot(task.num_classes, Item(y, index_array[k]))]]
    ELSE [error |-> "ValueError", batch_y |-> <<>>]

\* the loop indexing the column by key, the position in the batch, not by val
Gather_by_key(column, index_array) ==
    [k \in 1..Len(index_array) |-> Item(column, (k - 1) % Len(column))]
\* for key, val in enumerate(index_array): batch.append(column[val])
Gather(column, index_array) ==
    [k \in 1..Len(index_array) |-> Item(column, index_array[k])]

NoFeatures == [x_left |-> <<>>, x_right |-> <<>>, id_left |-> <<>>, id_right |-> <<>>]

Raised(index_array, error) ==
    [called |-> TRUE, index_array |-> index_array, status |-> error,
     features |-> NoFeatures, targets |-> <<>>]

\* the row-gathering loop and the return statement
RowGathering(store, index_array, batch_y) ==
    IF ~AllInBounds(Len(store.x_left), index_array)
    THEN Raised(index_array, "IndexError")
    ELSE [called |-> TRUE, index_array |-> index_array, status |-> "ok",
          features |-> [x_left |-> Gather(store.x_left, index_array),
                        x_right |-> Gather(store.x_right, index_array),
                        id_left |-> Gather(store.id_left, index_array),
                        id_right |-> Gather(store.id_right, index_array)],
          targets |-> batch_y]

\* the method with the rows gathered before the task is looked at
get_batch_gather_first(store, task, index_array) ==
    LET rows == RowGathering(store, index_array, <<>>)
        enc == LabelEncoding(task, store.y, index_array)
    IN  IF rows.status # "ok" THEN rows
        ELSE IF enc.error # "none" THEN Raised(index_array, enc.error)
        ELSE [rows EXCEPT !.targets = enc.batch_y]

\* the whole method: what the call returns or raises
get_batch(store, task, index_array) ==
    LET enc == LabelEncoding(task, store.y, index_array)
    IN  IF enc.error # "none"
        THEN Raised(index_array, enc.error)
        ELSE RowGathering(store, index_array, enc.batch_y)

\* self.y after the call with self.y = self.y[index_array] in the Ranking branch
StoredLabelsAfter_regathered(task, y, index_array) ==
    IF isinstance(task, "Ranking") /\ AllInBounds(Len(y), index_array)
    THEN Gather(y, index_array)
    ELSE y
\* self.y after the call.  No statement assigns an attribute of self; batch_y
\* names the stored array only in the Ranking branch and is written only in
\* the Classification branch, where it is a new array; the return copies it.
StoredLabelsAfter(task, y, index_array) == y

\* ------------------------------------------------------------------- state

VARIABLES
    x_left, x_right, y, id_left, id_right,  \* the five stored columns
    task,                                   \* self._task
    batch_size, num_instances, shuffle,     \* what super().__init__ received
    index_array,                            \* the base generator's row order
    batch_index,                            \* next batch position of the traversal
    epoch,                                  \* traversals completed
    call,                                   \* the last get_batch call and its outcome
    calls,                                  \* history: get_batch calls made so far
    raised_before,                          \* history: an earlier call raised
    built,                                  \* history: the constructor's arguments
    visited,                                \* history: row indices passed this traversal
    batch_rows                              \* history: rows of each batch this traversal

vars == <<x_left, x_right, y, id_left, id_right, task, batch_size, num_instances,
          shuffle, index_array, batch_index, epoch, call, calls, raised_before, built, visited,
          batch_rows>>

store == [x_left |-> x_left, x_right |-> x_right, y |-> y,
          id_left |-> id_left, id_right |-> id_right]

NotCalled ==
    [called |-> FALSE, index_array |-> <<>>, status |-> "none",
     features |-> NoFeatures, targets |-> <<>>]

\* super().__init__ given the number of columns for the number of rows
BaseInitArgs_columns(batch_size_arg, inputs, shuffle_arg) ==
    [batch_size |-> batch_size_arg, num_instances |-> Cardinality(DOMAIN inputs[1]),
     shuffle |-> shuffle_arg]
\* super().__init__ given its first two arguments in the other order
BaseInitArgs_swapped(batch_size_arg, inputs, shuffle_arg) ==
    [batch_size |-> Len(inputs), num_instances |-> batch_size_arg,
     shuffle |-> shuffle_arg]
\* super().__init__(batch_size, len(inputs.dataframe), shuffle)
BaseInitArgs(batch_size_arg, inputs, shuffle_arg) ==
    [batch_size |-> batch_size_arg, num_instances |-> Len(inputs),
     shuffle |-> shuffle_arg]

\* PointGenerator(inputs[, task[, batch_size[, shuffle]]])
Constructed(inputs, task_given, task_arg, batch_size_arg, shuffle_arg) ==
    LET cols == transform_data(inputs)
        base == BaseInitArgs(batch_size_arg, inputs, shuffle_arg)
    IN  /\ task = IF task_given THEN task_arg ELSE DefaultTask
        /\ x_left = cols.x_left
        /\ x_right = cols.x_right
        /\ y = cols.y
        /\ id_left = cols.id_left
        /\ id_right = cols.id_right
        /\ batch_size = base.batch_size
        /\ num_instances = base.num_instances
        /\ shuffle = base.shuffle
        /\ index_array = <<>>
        /\ batch_index = 0
        /\ epoch = 0
        /\ calls = 0
        /\ raised_before = FALSE
        /\ built = [inputs |-> inputs, task_given |-> task_given,
                    task |-> IF task_given THEN task_arg ELSE DefaultTask,
                    batch_size |-> batch_size_arg, shuffle |-> shuffle_arg]
        /\ visited = <<>>
        /\ batch_rows = <<>>

\* index arrays a caller may pass: every index from below -N to N
IndexArrays(n, maxlen) == SeqsUpTo((-(n + 1))..n, 0, maxlen)

\* PointGenerator(inputs[, task]): the default batch_size and shuffle
DefaultConstructed(rows) ==
    \E inputs \in SeqsUpTo(rows, 1, MaxRows), task_given \in BOOLEAN, task_arg \in Tasks :
        /\ task_given \/ task_arg = DefaultTask
        /\ Constructed(inputs, task_given, task_arg, DefaultBatchSize, DefaultShuffle)

\* a new generator
Init ==
    /\ DefaultConstructed(SeqRowSet)
    /\ call = NotCalled

\* generator._get_batch_of_transformed_samples(ia), called directly, any
\* number of times with any index arrays
GetBatch ==
    /\ calls < MaxCalls
    /\ \E ia \in IndexArrays(Len(y), MaxSeqIndexLen) :
        /\ call' = get_batch(store, task, ia)
        /\ y' = StoredLabelsAfter(task, y, ia)
    /\ calls' = calls + 1
    /\ raised_before' = (raised_before \/ call.status \in {"IndexError", "ValueError"})
    /\ UNCHANGED <<x_left, x_right, id_left, id_right, task, batch_size,
                   num_instances, shuffle, index_array, batch_index, epoch,
                   built, visited, batch_rows>>

Next == GetBatch

Spec == Init /\ [][Next]_vars

\* --------------------------------- one call, over every argument (pure function)

Pending(ia) ==
    [called |-> FALSE, index_array |-> ia, status |-> "pending",
     features |-> NoFeatures, targets |-> <<>>]

\* a new generator and the index_array its caller is about to pass
InitCall ==
    /\ DefaultConstructed(RowSet)
    /\ \E ia \in IndexArrays(Len(y), MaxIndexLen) : call = Pending(ia)

\* generator._get_batch_of_transformed_samples(call.index_array)
CallGetBatch ==
    /\ call.status = "pending"
    /\ call' = get_batch(store, task, call.index_array)
    /\ y' = StoredLabelsAfter(task, y, call.index_array)
    /\ calls' = calls + 1
    /\ raised_before' = (raised_before \/ call.status \in {"IndexError", "ValueError"})
    /\ UNCHANGED <<x_left, x_right, id_left, id_right, task, batch_size,
                   num_instances, shuffle, index_array, batch_index, epoch,
                   built, visited, batch_rows>>

NextCall == CallGetBatch

SpecCall == InitCall /\ [][NextCall]_vars

\* ------------------------------------------- iteration (engine.BaseGenerator)

\* len(generator): the batches of one traversal
NumBatches == (num_instances + batch_size - 1) \div batch_size

Arange(n) == [i \in 1..n |-> i - 1]
IndexPermutations(n) ==
    { p \in [1..n -> 0..(n - 1)] : \A i, j \in 1..n : p[i] = p[j] => i = j }

\* the row orders one draw may give
DrawOrder == IF shuffle THEN IndexPermutations(num_instances) ELSE {Arange(num_instances)}

\* a[lo:hi] for 0 <= lo <= hi: the end is clamped to len(a)
Slice(a, lo, hi) ==
    SubSeq(a, lo + 1, IF hi < Len(a) THEN hi ELSE Len(a))

\* generator[batch_index]: the next batch of the traversal.  The order is
\* drawn when the first batch of the first traversal is asked for.
GetItem ==
    /\ batch_index < NumBatches
    /\ \E order \in (IF index_array = <<>> THEN DrawOrder ELSE {index_array}) :
        LET ia == Slice(order, batch_size * batch_index, batch_size * (batch_index + 1))
            res == get_batch(store, task, ia)
        IN  /\ index_array' = order
            /\ call' = res
            /\ y' = StoredLabelsAfter(task, y, ia)
            /\ visited' = visited \o ia
            /\ batch_rows' = Append(batch_rows, Len(res.features.x_left))
    /\ batch_index' = batch_index + 1
    /\ calls' = calls + 1
    /\ raised_before' = (raised_before \/ call.status \in {"IndexError", "ValueError"})
    /\ UNCHANGED <<x_left, x_right, id_left, id_right, task, batch_size,
                   num_instances, shuffle, epoch, built>>

\* the dataset is consumed: the order is drawn again and the traversal restarts
OnEpochEnd ==
    /\ batch_index = NumBatches
    /\ epoch < MaxEpochs
    /\ index_array' \in DrawOrder
    /\ batch_index' = 0
    /\ epoch' = epoch + 1
    /\ visited' = <<>>
    /\ batch_rows' = <<>>
    /\ UNCHANGED <<x_left, x_right, y, id_left, id_right, task, batch_size,
                   num_instances, shuffle, call, calls, raised_before, built>>

\* a generator built with every argument given, over rows with valid labels
InitEpoch ==
    \E inputs \in SeqsUpTo(EpochRowSet, 1, MaxEpochRows),
       task_arg \in {RankingInstance, ClassificationInstance(2)},
       batch_size_arg \in 1..MaxBatchSize, shuffle_arg \in BOOLEAN :
        /\ Constructed(inputs, TRUE, task_arg, batch_size_arg, shuffle_arg)
        /\ call = NotCalled

NextEpoch == GetItem \/ OnEpochEnd

SpecEpoch == InitEpoch /\ [][NextEpoch]_vars

\* ================================================================= claims

\* the constructor's data, as the claims speak of it
N == Len(built.inputs)
StoredRow(i) == built.inputs[i + 1]
Requested == call.index_array
\* every requested index is a row index in [0, N)
ValidIndexArray == \A k \in 1..Len(Requested) : 0 <= Requested[k] /\ Requested[k] < N
\* the class count of a Classification task
C == task.num_classes
\* ceil(a / b), stated without division
IsCeilDiv(k, a, b) == (k - 1) * b < a /\ a <= k * b

\* C1: for a Ranking task and every index_array of row indices in [0, N), the
\* targets have len(index_array) entries and targets[i] is the stored label of
\* row index_array[i].
C1_RankingTargetsAreGatheredLabels ==
    (call.called /\ isinstance(task, "Ranking") /\ ValidIndexArray)
    => /\ call.status = "ok"
       /\ Len(call.targets) = Len(Requested)
       /\ \A k \in 1..Len(Requested) : call.targets[k] = StoredRow(Requested[k]).label

\* C2: for a Classification task with C classes whose stored labels all lie in
\* [0, C), and every index_array of row indices in [0, N), duplicates allowed,
\* the targets have shape (len(index_array), C) and row i holds a single 1, at
\* the column of the stored label of row index_array[i], and 0 elsewhere.
C2_ClassificationTargetsAreOneHot ==
    (/\ call.called
     /\ isinstance(task, "Classification")
     /\ \A i \in 0..(N - 1) : 0 <= StoredRow(i).label /\ StoredRow(i).label < C
     /\ ValidIndexArray)
    => /\ call.status = "ok"
       /\ Len(call.targets) = Len(Requested)
       /\ \A k \in 1..Len(Requested) :
            /\ Len(call.targets[k]) = C
            /\ Cardinality({c \in 1..C : call.targets[k][c] = 1}) = 1
            /\ \A c \in 1..C :
                 call.targets[k][c] =
                     IF c - 1 = StoredRow(Requested[k]).label THEN 1 ELSE 0

C2_Witness ==
    /\ call.called /\ call.status = "ok"
    /\ task = ClassificationInstance(2)
    /\ N = 2 /\ StoredRow(0).label = 0 /\ StoredRow(1).label = 1
    /\ Requested = <<1, 1>>
    /\ call.targets = << <<0, 1>>, <<0, 1>> >>

\* C3: for a Classification task with C classes, if a requested row has a
\* stored label outside [0, C) (label >= C or label < 0), get_batch fails with
\* an IndexError and returns no batch.
C3_LabelOutOfRangeRaises ==
    (/\ call.called
     /\ isinstance(task, "Classification")
     /\ ValidIndexArray
     /\ \E k \in 1..Len(Requested) :
            StoredRow(Requested[k]).label < 0 \/ StoredRow(Requested[k]).label >= C)
    => /\ call.status = "IndexError"
       /\ call.features = NoFeatures
       /\ call.targets = <<>>

\* C4: for either recognized task, if index_array holds a row index outside
\* [0, N) (index >= N or index < 0), get_batch fails with an IndexError and
\* returns no batch.
C4_IndexOutOfRangeRaises ==
    (/\ call.called
     /\ (isinstance(task, "Ranking") \/ isinstance(task, "Classification"))
     /\ ~ValidIndexArray)
    => /\ call.status = "IndexError"
       /\ call.features = NoFeatures
       /\ call.targets = <<>>

\* C5: if the task is an instance of neither Ranking nor Classification, every
\* get_batch call, whatever its index_array (empty, out of range), fails with
\* a ValueError and yields no features and no targets.
C5_UnrecognizedTaskRaisesValueError ==
    (/\ call.called
     /\ ~isinstance(task, "Ranking")
     /\ ~isinstance(task, "Classification"))
    => /\ call.status = "ValueError"
       /\ call.features = NoFeatures
       /\ call.targets = <<>>

C5_Witness ==
    /\ call.called
    /\ task = OtherTaskInstance
    /\ \E k \in 1..Len(Requested) : Requested[k] >= N
    /\ call.status = "ValueError"

\* C6: for every index_array of row indices in [0, N), duplicates allowed, and
\* a recognized task, the batch get_batch returns has x_left, x_right, id_left
\* and id_right of length len(index_array), each holding at position i the
\* stored value of its column at row index_array[i]; the call does return
\* under a Ranking task, and under a Classification task whose requested
\* labels all lie in [0, C).
C6_FeaturesAreGatheredRows ==
    (/\ call.called
     /\ (isinstance(task, "Ranking") \/ isinstance(task, "Classification"))
     /\ ValidIndexArray)
    => /\ (\/ isinstance(task, "Ranking")
           \/ \A k \in 1..Len(Requested) :
                0 <= StoredRow(Requested[k]).label /\ StoredRow(Requested[k]).label < C)
          => call.status = "ok"
       /\ call.status = "ok"
          => /\ Len(call.features.x_left) = Len(Requested)
             /\ Len(call.features.x_right) = Len(Requested)
             /\ Len(call.features.id_left) = Len(Requested)
             /\ Len(call.features.id_right) = Len(Requested)
             /\ \A k \in 1..Len(Requested) :
                  /\ call.features.x_left[k] = StoredRow(Requested[k]).text_left
                  /\ call.features.x_right[k] = StoredRow(Requested[k]).text_right
                  /\ call.features.id_left[k] = StoredRow(Requested[k]).id_left
                  /\ call.features.id_right[k] = StoredRow(Requested[k]).id_right

C6_Witness ==
    /\ call.called /\ call.status = "ok"
    /\ N = 2 /\ StoredRow(0).text_left # StoredRow(1).text_left
    /\ Requested = <<1, 1>>
    /\ call.features.x_left = <<StoredRow(1).text_left, StoredRow(1).text_left>>
    /\ call.features.id_right = <<StoredRow(1).id_right, StoredRow(1).id_right>>

\* C7: after any sequence of get_batch calls, successful or failing, the five
\* stored columns and the task are those of construction, and every call
\* returns what the same index_array returns on the newly built generator, so
\* that two calls with one index_array agree whatever was called in between.
C7_GetBatchIsPureRead ==
    /\ x_left = [i \in 1..N |-> built.inputs[i].text_left]
    /\ x_right = [i \in 1..N |-> built.inputs[i].text_right]
    /\ y = [i \in 1..N |-> built.inputs[i].label]
    /\ id_left = [i \in 1..N |-> built.inputs[i].id_left]
    /\ id_right = [i \in 1..N |-> built.inputs[i].id_right]
    /\ task = built.task
    /\ call.called
       => call = get_batch(transform_data(built.inputs), built.task, Requested)

C7_Witness ==
    /\ calls >= 3
    /\ raised_before
    /\ isinstance(task, "Ranking")
    /\ call.status = "ok"
    /\ N = 2 /\ Requested = <<1>>

\* C8: over one full traversal (batch positions 0 .. number_of_batches - 1)
\* the row indices passed to get_batch are 0 .. N-1, each once, with shuffle
\* on or off; without shuffle they come in increasing order, and the same
\* holds of every later traversal, whose order is drawn anew.
C8_EpochVisitsEveryRowOnce ==
    /\ \A k \in 1..Len(visited) : 0 <= visited[k] /\ visited[k] < N
    /\ \A j, k \in 1..Len(visited) : visited[j] = visited[k] => j = k
    /\ IsCeilDiv(batch_index, N, built.batch_size)
       => {visited[k] : k \in 1..Len(visited)} = 0..(N - 1)
    /\ ~built.shuffle => \A k \in 1..Len(visited) : visited[k] = k - 1

C8_Witness ==
    /\ epoch >= 1
    /\ built.shuffle
    /\ N = 3
    /\ batch_index = NumBatches
    /\ visited = <<2, 0, 1>>

\* C9: over N >= 1 rows with a positive batch_size a traversal has
\* ceil(N / batch_size) batches; every batch but the last has batch_size rows
\* and the last has N - batch_size * (ceil(N / batch_size) - 1) rows, at
\* least one.
C9_BatchCountAndSizes ==
    /\ IsCeilDiv(NumBatches, N, built.batch_size)
    /\ batch_index <= NumBatches
    /\ Len(batch_rows) = batch_index
    /\ \A k \in 1..Len(batch_rows) :
         IF k < NumBatches
         THEN batch_rows[k] = built.batch_size
         ELSE /\ batch_rows[k] = N - built.batch_size * (NumBatches - 1)
              /\ batch_rows[k] >= 1
              /\ batch_rows[k] <= built.batch_size
              /\ (batch_rows[k] < built.batch_size) <=> (N % built.batch_size # 0)

C9_Witness ==
    /\ N = 3
    /\ built.batch_size = 2
    /\ batch_index = NumBatches
    /\ batch_rows = <<2, 1>>

====
